---------------------------- MODULE Spec2Model ----------------------------
(***************************************************************************)
(* Model of client/ayon_deadline/plugins/publish/nuke/                     *)
(* submit_nuke_deadline.py (class NukeSubmitDeadline).                     *)
(*                                                                         *)
(* Strings are sequences of one-character strings, so that split, replace, *)
(* substring tests and %-formatting are computed as Python computes them.  *)
(* Every method of the plugin is modelled as Python executes it, its       *)
(* exceptions included: a name that no import and no assignment of the     *)
(* file binds raises NameError where it is evaluated.  Attributes read     *)
(* through self that the file does not define (self.log, the settings      *)
(* attributes) come from the framework outside the repository.             *)
(*                                                                         *)
(* One specification per entry point of the plugin:                        *)
(*   SpecExpected  _expected_files                                         *)
(*   SpecLimit     _get_limit_groups                                       *)
(*   SpecPayload   payload_submit                                          *)
(*   SpecProcess   process                                                 *)
(***************************************************************************)
EXTENDS Integers, Sequences, FiniteSets, TLC

\* ------------------------------------------------------------------------
\* Bounds of the model
\* ------------------------------------------------------------------------

\* longest generated file name over the alphabet {p, #, %}
MaxNameLen == 3

\* frames are drawn from 0 .. MaxFrame
MaxFrame == 3

\* most limit-group rules in the settings
MaxRules == 2

\* most nodes in the scene
MaxNodes == 2

\* most search-and-replace rules in the settings
MaxReplaceRules == 2

\* most baking scripts of an instance
MaxBaking == 2

\* ------------------------------------------------------------------------
\* Python str operations, on sequences of one-character strings
\* ------------------------------------------------------------------------

\* all sequences over S of length 1 .. n
SeqsUpTo(S, n) == UNION {[1..k -> S] : k \in 1..n}

\* s[i:] of Python, for 1-based i
Drop(s, i) == SubSeq(s, i, Len(s))

\* s.startswith(pre, i-1)
StartsWithAt(s, pre, i) ==
    /\ i + Len(pre) - 1 <= Len(s)
    /\ SubSeq(s, i, i + Len(pre) - 1) = pre

\* `sub in s` for two str
Contains(s, sub) == \E i \in 1..(Len(s) + 1) : StartsWithAt(s, sub, i)

\* s.split(c) for a one-character separator c: the list of parts
RECURSIVE SplitFrom(_, _, _, _)
SplitFrom(s, c, i, cur) ==
    IF i > Len(s) THEN <<cur>>
    ELSE IF s[i] = c THEN <<cur>> \o SplitFrom(s, c, i + 1, <<>>)
    ELSE SplitFrom(s, c, i + 1, Append(cur, s[i]))

Split(s, c) == SplitFrom(s, c, 1, <<>>)

\* s.replace(old, new): every non-overlapping occurrence, left to right; an
\* empty old matches before every character and at the end
RECURSIVE ReplaceFrom(_, _, _, _)
ReplaceFrom(s, old, new, i) ==
    IF old = <<>> THEN
        IF i > Len(s) THEN new
        ELSE new \o <<s[i]>> \o ReplaceFrom(s, old, new, i + 1)
    ELSE IF i > Len(s) THEN <<>>
    ELSE IF StartsWithAt(s, old, i)
         THEN new \o ReplaceFrom(s, old, new, i + Len(old))
         ELSE <<s[i]>> \o ReplaceFrom(s, old, new, i + 1)

Replace(s, old, new) == ReplaceFrom(s, old, new, 1)

\* position of the last c in s, 0 when there is none (str.rfind + 1)
RFind(s, c) ==
    LET hits == {i \in 1..Len(s) : s[i] = c}
    IN IF hits = {} THEN 0 ELSE CHOOSE i \in hits : \A j \in hits : j <= i

\* os.path.dirname (posix): the head up to the last "/", trailing "/" removed
\* unless the head is the root
Dirname(p) ==
    LET i == RFind(p, "/")
        head == SubSeq(p, 1, i)
    IN IF i = 0 THEN <<>>
       ELSE IF \A j \in 1..Len(head) : head[j] = "/" THEN head
       ELSE SubSeq(p, 1, i - 1)

\* os.path.basename (posix): what follows the last "/"
Basename(p) == Drop(p, RFind(p, "/") + 1)

\* os.path.join(a, b) (posix) for a relative b
Join(a, b) ==
    IF a = <<>> THEN b
    ELSE IF a[Len(a)] = "/" THEN a \o b
    ELSE a \o <<"/">> \o b

DigitChars == <<"0", "1", "2", "3", "4", "5", "6", "7", "8", "9">>

\* str(n) for n >= 0
RECURSIVE Digits(_)
Digits(n) ==
    IF n < 10 THEN <<DigitChars[n + 1]>>
    ELSE Digits(n \div 10) \o <<DigitChars[(n % 10) + 1]>>

\* int(s) for a str of digits, 0 for the empty str
RECURSIVE ToNat(_)
ToNat(s) ==
    IF s = <<>> THEN 0
    ELSE LET d == CHOOSE k \in 0..9 : DigitChars[k + 1] = s[Len(s)]
         IN 10 * ToNat(SubSeq(s, 1, Len(s) - 1)) + d

IsDigit(c) == \E k \in 1..10 : DigitChars[k] = c

RECURSIVE Repeat(_, _)
Repeat(c, n) == IF n <= 0 THEN <<>> ELSE <<c>> \o Repeat(c, n - 1)

\* "%<0><width>d" % i: the sign, then the digits, padded on the left to the
\* width: with zeros after the sign under the 0 flag, with spaces otherwise
FormatInt(zero, width, i) ==
    LET sign == IF i < 0 THEN <<"-">> ELSE <<>>
        digs == Digits(IF i < 0 THEN -i ELSE i)
        fill == width - Len(sign) - Len(digs)
    IN IF zero THEN sign \o Repeat("0", fill) \o digs
       ELSE Repeat(" ", fill) \o sign \o digs

\* The result of `template % i` for an int i: [ok |-> TRUE, s |-> text], or
\* [ok |-> FALSE] when Python raises (ValueError for an incomplete or
\* unsupported format, TypeError when the argument is not consumed exactly
\* once).  Conversions understood: %%, and % 0* digits* d.
RECURSIVE FormatFrom(_, _, _, _)
FormatFrom(t, i, pos, used) ==
    IF pos > Len(t) THEN
        IF used = 1 THEN [ok |-> TRUE, s |-> <<>>] ELSE [ok |-> FALSE, s |-> <<>>]
    ELSE IF t[pos] # "%" THEN
        LET rest == FormatFrom(t, i, pos + 1, used)
        IN [ok |-> rest.ok, s |-> <<t[pos]>> \o rest.s]
    ELSE IF pos = Len(t) THEN [ok |-> FALSE, s |-> <<>>]
    ELSE IF t[pos + 1] = "%" THEN
        LET rest == FormatFrom(t, i, pos + 2, used)
        IN [ok |-> rest.ok, s |-> <<"%">> \o rest.s]
    ELSE
        LET nonzero == {j \in (pos + 1)..Len(t) : t[j] # "0"}
            wstart == IF nonzero = {} THEN Len(t) + 1
                      ELSE CHOOSE j \in nonzero : \A k \in nonzero : j <= k
            nondig == {j \in wstart..Len(t) : ~IsDigit(t[j])}
            conv == IF nondig = {} THEN Len(t) + 1
                    ELSE CHOOSE j \in nondig : \A k \in nondig : j <= k
        IN IF conv > Len(t) \/ t[conv] # "d" \/ used >= 1
           THEN [ok |-> FALSE, s |-> <<>>]
           ELSE LET rest == FormatFrom(t, i, conv + 1, used + 1)
                    txt == FormatInt(wstart > pos + 1,
                                     ToNat(SubSeq(t, wstart, conv - 1)), i)
                IN [ok |-> rest.ok, s |-> txt \o rest.s]

PyFormat(t, i) == FormatFrom(t, i, 1, 0)


\* ------------------------------------------------------------------------
\* State
\* ------------------------------------------------------------------------

VARIABLES
    data,            \* instance.data of the instance the plugin works on
    pc,              \* position of the running method
    exc,             \* the exception the method raised, "" for none
    filepath,        \* _expected_files: argument filepath
    start_frame,     \* _expected_files: argument start_frame
    end_frame,       \* _expected_files: argument end_frame
    expected_before, \* instance.data["expectedFiles"] when the call began
    limit_groups,    \* _get_limit_groups: argument limit_groups (the rules)
    all_nodes,       \* the list nuke.allNodes(recurseGroups=True) returns
    captured_groups, \* _get_limit_groups: the list it returns
    current_file,    \* instance.context.data["currentFile"]
    render_path,     \* payload_submit: argument render_path
    response_data,   \* payload_submit: argument response_data
    baking_submission, \* payload_submit: argument baking_submission
    in_tests,        \* what is_in_tests() returns
    render_dir_state, \* the render directory on disk
    makedirs_error,  \* the OSError os.makedirs raised, "" for none
    env_allowed_keys, \* setting env_allowed_keys
    env_search_replace_values, \* setting env_search_replace_values
    os_environ,      \* os.environ
    instance_job_envs, \* what get_instance_job_envs(instance) returns
    render_job_envs, \* what get_ayon_render_job_envs() returns
    environment,     \* payload_submit: local environment
    payload,         \* payload_submit: local payload
    submissions,     \* the jobs handed to the Deadline web service, in order
    deadline_url,    \* self.deadline_url, "" while process has not set it
    data_before      \* instance.data when the entry point was called

vars == <<data, pc, exc, filepath, start_frame, end_frame, expected_before,
          limit_groups, all_nodes, captured_groups,
          current_file, render_path, response_data, baking_submission,
          in_tests, render_dir_state, makedirs_error, env_allowed_keys,
          env_search_replace_values, os_environ, instance_job_envs,
          render_job_envs, environment, payload, submissions,
          deadline_url, data_before>>

\* what process writes besides instance.data
process_vars == <<deadline_url, data_before>>

\* the arguments and surroundings of a payload_submit call
payload_inputs == <<current_file, render_path, response_data,
                    baking_submission, in_tests, env_allowed_keys,
                    env_search_replace_values, os_environ,
                    instance_job_envs, render_job_envs>>

\* what a payload_submit call writes
payload_vars == <<render_dir_state, makedirs_error, environment, payload,
                  submissions>>

\* the variables of each entry point
expected_vars == <<filepath, start_frame, end_frame, expected_before>>
limit_vars == <<limit_groups, all_nodes, captured_groups>>

\* Characters of a str literal of the source
Str_d == <<"/", "d">>
Str_dh == <<"/", "d", "#">>

\* Output directories: one plain, one with "#" in its name
Dirs == {Str_d, Str_dh}

\* File names: every name over {p, #, %} up to MaxNameLen characters, and
\* names that hold a printf placeholder
Templates ==
    { <<"p", ".", "%", "0", "2", "d">>,
      <<"p", ".", "%", "d", ".", "p">>,
      <<"%", "0", "3", "d", ".", "p">>,
      <<"p", "%", "2", "d">>,
      <<"p", ".", "#", "#", "#", "#", ".", "p">>,
      <<"p", ".", "p">> }

FileNames == SeqsUpTo({"p", "#", "%"}, MaxNameLen) \cup Templates

Paths == {Join(d, f) : d \in Dirs, f \in FileNames}

Frames == 0..MaxFrame

\* instance.data["representations"]: none, one tagged publish_on_farm that
\* lists the file p.p, one that lists it without the tag, one whose "files"
\* is the single name p.p (a str, not a list)
Representations ==
    { <<>>,
      <<[tags |-> {"publish_on_farm"}, isList |-> TRUE,
         files |-> << <<"p", ".", "p">> >>]>>,
      <<[tags |-> {"review"}, isList |-> TRUE,
         files |-> << <<"p", ".", "p">> >>]>>,
      <<[tags |-> {"publish_on_farm"}, isList |-> FALSE,
         files |-> <<"p", ".", "p">>]>> }

RenderTargets == {"local", "farm", "frames_farm"}

\* instance.data of an instance the collectors have filled and no submit
\* plugin has touched
FreshData ==
    [ farm |-> TRUE,
      url |-> "http://deadline",
      render_target |-> "farm",
      path |-> Join(Str_d, <<"p", ".", "p">>),
      chunk |-> 10,
      frameStartHandle |-> 1,
      frameEndHandle |-> 1,
      slate |-> FALSE,
      representations |-> <<>>,
      expectedFiles |-> <<>>,
      bakingNukeScripts |-> <<>>,
      productType |-> "render",
      family |-> "render",
      families |-> <<"render">>,
      deadlineSubmissionJob |-> "",
      outputDir |-> "",
      publishJobState |-> "",
      bakingSubmissionJobs |-> <<>> ]

\* the variables of _get_limit_groups when it is not the entry point
LimitIdle ==
    /\ limit_groups = <<>>
    /\ all_nodes = <<>>
    /\ captured_groups = <<>>

\* no response of a previous submission: None, or a dict without "_id"
NoResponse == [_id |-> "", Batch |-> <<>>]

\* the payload before payload_submit has built it
NoPayload ==
    [ BatchName |-> <<>>, Name |-> <<>>, JobType |-> "", ChunkSize |-> 0,
      JobDependency0 |-> "", Environment |-> <<>> ]

\* the variables of payload_submit when it is not the entry point
PayloadIdle ==
    /\ current_file = <<"/", "w", "/", "s", "c">>
    /\ render_path = <<>>
    /\ response_data = NoResponse
    /\ baking_submission = FALSE
    /\ in_tests = FALSE
    /\ render_dir_state = "absent"
    /\ makedirs_error = ""
    /\ env_allowed_keys = <<>>
    /\ env_search_replace_values = <<>>
    /\ os_environ = <<>>
    /\ instance_job_envs = <<>>
    /\ render_job_envs = <<>>
    /\ environment = <<>>
    /\ payload = NoPayload
    /\ submissions = <<>>

\* the variables of process when it is not the entry point
ProcessIdle ==
    /\ deadline_url = <<>>
    /\ data_before = data

\* the variables of _expected_files when it is not the entry point
ExpectedIdle ==
    /\ filepath = <<>>
    /\ start_frame = 0
    /\ end_frame = 0
    /\ expected_before = <<>>

\* ------------------------------------------------------------------------
\* _expected_files
\* ------------------------------------------------------------------------

\* `file in repre.get("files", [])`: membership in a list, substring of a str
FileInRepre(file, repre) ==
    IF repre.isList
    THEN \E k \in 1..Len(repre.files) : repre.files[k] = file
    ELSE Contains(repre.files, file)

\* the loop over the representations: TRUE when it returns early
SkippedByRepresentation(d, file) ==
    \E k \in 1..Len(d.representations) :
        /\ "publish_on_farm" \in d.representations[k].tags
        /\ FileInRepre(file, d.representations[k])

\* mutant of HashPadding: the number of parts taken for the number of "#"
HashPadding_Parts(pparts) == Len(pparts)

\* len(pparts) - 1
HashPadding(pparts) == Len(pparts) - 1

\* a "#" name rewritten to a printf pattern
HashToPattern(file) ==
    IF Contains(file, <<"#">>)
    THEN LET pparts == Split(file, "#")
             padding == <<"%", "0">> \o Digits(HashPadding(pparts)) \o <<"d">>
         IN pparts[1] \o padding \o pparts[Len(pparts)]
    ELSE file

\* mutant of SingleFile: no pattern is taken for a single file
SingleFile_Never(pattern) == FALSE

\* `"%" not in file`: the input path is a single file (video or image)
SingleFile(pattern) == ~Contains(pattern, <<"%">>)

\* mutant of ShiftedStart: the slate is ignored
ShiftedStart_NoSlate(d, start) == start

\* the start frame after the slate shift
ShiftedStart(d, start) == IF d.slate THEN start - 1 ELSE start

\* range(start_frame, end_frame + 1) as a list
FrameRange(start, end) ==
    IF end + 1 <= start THEN <<>>
    ELSE [k \in 1..(end + 1 - start) |-> start + k - 1]

\* The call _expected_files(instance, path, start, end): the exception it
\* raises ("" for none) and instance.data["expectedFiles"] after it
ExpectedFilesResult(d, path, start, end) ==
    LET dirname == Dirname(path)
        file == Basename(path)
        pattern == HashToPattern(file)
        frames == FrameRange(ShiftedStart(d, start), end)
    IN IF d.render_target = "frames_farm"
       THEN [exc |-> "", expectedFiles |-> d.expectedFiles]
       ELSE IF SkippedByRepresentation(d, file)
       THEN [exc |-> "", expectedFiles |-> d.expectedFiles]
       ELSE IF SingleFile(pattern)
       THEN [exc |-> "", expectedFiles |-> Append(d.expectedFiles, path)]
       ELSE IF frames = <<>>
       THEN [exc |-> "", expectedFiles |-> d.expectedFiles]
       ELSE IF ~PyFormat(pattern, frames[1]).ok
       THEN [exc |-> "FormatError", expectedFiles |-> d.expectedFiles]
       ELSE [exc |-> "",
             expectedFiles |-> d.expectedFiles \o
                [k \in 1..Len(frames) |->
                    Replace(Join(dirname, PyFormat(pattern, frames[k]).s),
                            <<"\\">>, <<"/">>)]]

InitExpected ==
    /\ filepath \in Paths
    /\ start_frame \in Frames
    /\ end_frame \in Frames
    /\ \E rt \in {"farm", "frames_farm"}, sl \in BOOLEAN,
          reps \in Representations,
          old \in {<<>>, <<Join(Str_d, <<"p">>)>>} :
          data = [FreshData EXCEPT !.render_target = rt, !.slate = sl,
                                   !.representations = reps,
                                   !.expectedFiles = old,
                                   !.path = filepath]
    /\ expected_before = data.expectedFiles
    /\ pc = "expected_files"
    /\ exc = ""
    /\ LimitIdle
    /\ PayloadIdle
    /\ ProcessIdle

ExpectedFiles ==
    /\ pc = "expected_files"
    /\ LET r == ExpectedFilesResult(data, filepath, start_frame, end_frame)
       IN /\ data' = [data EXCEPT !.expectedFiles = r.expectedFiles]
          /\ exc' = r.exc
          /\ pc' = IF r.exc = "" THEN "returned" ELSE "raised"
    /\ UNCHANGED <<filepath, start_frame, end_frame, expected_before>>
    /\ UNCHANGED <<limit_vars, payload_inputs, payload_vars, process_vars>>

NextExpected == ExpectedFiles

SpecExpected == InitExpected /\ [][NextExpected]_vars


\* ------------------------------------------------------------------------
\* Claims about _expected_files (checked under SpecExpected)
\* ------------------------------------------------------------------------

\* what the finished call appended to instance.data["expectedFiles"]
Appended == Drop(data.expectedFiles, Len(expected_before) + 1)

\* the call ran to its end, on an instance that is not frames_farm and has no
\* publish_on_farm representation holding the file name
ExpandedCall ==
    /\ pc \in {"returned", "raised"}
    /\ data.render_target # "frames_farm"
    /\ ~SkippedByRepresentation(data, Basename(filepath))

\* the file name holds a numeric placeholder: its pattern formats a frame
HoldsPlaceholder(file) ==
    /\ Contains(HashToPattern(file), <<"%">>)
    /\ PyFormat(HashToPattern(file), 0).ok

\* the first expanded frame as the claim C3 gives it
C3_FirstFrame == IF data.slate THEN start_frame - 1 ELSE start_frame

\* the path of frame f
C3_PathOf(f) ==
    Join(Dirname(filepath), PyFormat(HashToPattern(Basename(filepath)), f).s)

\* the appended paths are those of the frames s, s+1, ..., in this order,
\* none beyond end_frame
C3_OnePerFrame ==
    /\ exc = ""
    /\ \A j \in 1..Len(Appended) :
          /\ Appended[j] = C3_PathOf(C3_FirstFrame + j - 1)
          /\ C3_FirstFrame + j - 1 <= end_frame
    /\ \A f \in C3_FirstFrame..end_frame :
          \E j \in 1..Len(Appended) : C3_FirstFrame + j - 1 = f

\* C3 as stated: for a file name with a numeric placeholder, on an instance
\* that is not frames_farm and has no matching publish_on_farm
\* representation, one call appends exactly one path per frame of [s, end],
\* ascending, and the number of appended paths is end - s + 1.
C3_AsStated ==
    (ExpandedCall /\ HoldsPlaceholder(Basename(filepath)))
        => /\ C3_OnePerFrame
           /\ Len(Appended) = end_frame - C3_FirstFrame + 1

\* C3 amended: as C3, with the number of appended paths being end - s + 1
\* when end >= s - 1 and 0 when the range [s, end] is empty.
C3_Amended ==
    (ExpandedCall /\ HoldsPlaceholder(Basename(filepath)))
        => /\ C3_OnePerFrame
           /\ Len(Appended) = IF end_frame >= C3_FirstFrame - 1
                              THEN end_frame - C3_FirstFrame + 1
                              ELSE 0

\* C3 witness: a call with a slate that appended the frames start-1 .. end
C3_Witness ==
    /\ ExpandedCall /\ HoldsPlaceholder(Basename(filepath))
    /\ data.slate
    /\ start_frame < end_frame
    /\ Len(Appended) = end_frame - start_frame + 2

\* the maximal runs of "#" in s, as <<first position, length>>
HashRuns(s) ==
    { r \in (1..Len(s)) \X (1..Len(s)) :
        /\ r[1] + r[2] - 1 <= Len(s)
        /\ \A i \in r[1]..(r[1] + r[2] - 1) : s[i] = "#"
        /\ (r[1] > 1 => s[r[1] - 1] # "#")
        /\ (r[1] + r[2] <= Len(s) => s[r[1] + r[2]] # "#") }

\* s with the run r replaced by the frame f zero-padded to the run's length
WithRunReplaced(s, r, f) ==
    SubSeq(s, 1, r[1] - 1) \o FormatInt(TRUE, r[2], f) \o Drop(s, r[1] + r[2])

\* the frame the j-th appended path stands for
C7_FrameOf(j) == ShiftedStart(data, start_frame) + j - 1

\* C7 as stated: when the output path contains a run of k >= 1 consecutive
\* "#", the run is replaced by a zero-padded placeholder of width k, every
\* other character kept: each expected file is the original with the run
\* replaced by the frame number padded to k digits.
C7_AsStated ==
    (ExpandedCall /\ HashRuns(filepath) # {})
        => /\ exc = ""
           /\ \A r \in HashRuns(filepath) : \A j \in 1..Len(Appended) :
                 Appended[j] = WithRunReplaced(filepath, r, C7_FrameOf(j))

\* the file name holds exactly one run of "#" and no "%"
C7_SingleRun ==
    /\ Cardinality(HashRuns(Basename(filepath))) = 1
    /\ ~Contains(Basename(filepath), <<"%">>)

\* C7 amended: when the file name (the base name of the output path) holds
\* exactly one run of k >= 1 consecutive "#" and no "%", the run is replaced
\* by a zero-padded placeholder of width k, every other character of the file
\* name kept: one file per frame is appended, each the directory joined with
\* the file name whose run is replaced by the frame number zero-padded to
\* width k.
C7_Amended ==
    (ExpandedCall /\ C7_SingleRun)
        => /\ exc = ""
           /\ Len(Appended) = Len(FrameRange(ShiftedStart(data, start_frame),
                                             end_frame))
           /\ \A r \in HashRuns(Basename(filepath)) :
                 /\ HashToPattern(Basename(filepath)) =
                        SubSeq(Basename(filepath), 1, r[1] - 1)
                        \o <<"%", "0">> \o Digits(r[2]) \o <<"d">>
                        \o Drop(Basename(filepath), r[1] + r[2])
                 /\ \A j \in 1..Len(Appended) :
                        Appended[j] =
                            Join(Dirname(filepath),
                                 WithRunReplaced(Basename(filepath), r,
                                                 C7_FrameOf(j)))

\* C7 witness: a name with one run of two "#" expanded over several frames
C7_Witness ==
    /\ ExpandedCall /\ C7_SingleRun
    /\ \E r \in HashRuns(Basename(filepath)) : r[2] = 2
    /\ Len(Appended) >= 2

\* the file name (the base name of the path) holds neither "#" nor "%"
C11_PlainName ==
    \A i \in 1..Len(Basename(filepath)) :
        Basename(filepath)[i] \notin {"#", "%"}

\* C11: for a path whose file name contains neither "#" nor "%", on an
\* instance that is not frames_farm and has no matching publish_on_farm
\* representation, one call of _expected_files raises nothing and appends
\* exactly one entry, the given path, to expectedFiles, whatever the start
\* and the end frame are (end < start included) and whether or not there is
\* a slate.
C11_SingleEntry ==
    (ExpandedCall /\ C11_PlainName)
        => /\ exc = ""
           /\ pc = "returned"
           /\ Appended = <<filepath>>
           /\ data.expectedFiles = Append(expected_before, filepath)

\* C11 witness: a plain file name in a directory whose name holds "#", called
\* with a slate and end < start on a list that was not empty, has appended
\* the path
C11_Witness ==
    /\ ExpandedCall /\ C11_PlainName
    /\ Contains(Dirname(filepath), <<"#">>)
    /\ data.slate
    /\ end_frame < start_frame
    /\ expected_before # <<>>
    /\ Appended = <<filepath>>


\* ------------------------------------------------------------------------
\* _get_limit_groups
\* ------------------------------------------------------------------------

\* Node classes: B, ZB (whose name contains B) and K
Class_B == <<"B">>
Class_ZB == <<"Z", "B">>
Class_K == <<"K">>

\* the "value" of a rule: a list of node class names
ClassLists ==
    { <<>>, <<Class_B>>, <<Class_ZB>>, <<Class_K>>, <<Class_ZB, Class_K>> }

\* a rule of node_class_limit_groups
LimitGroupRules == [name : {"gpu", "lic"}, value : ClassLists]

\* a node of the scene: its Class() and the value of its disable knob
SceneNodes ==
    { [Class |-> Class_B, disable |-> FALSE],
      [Class |-> Class_B, disable |-> TRUE],
      [Class |-> Class_ZB, disable |-> FALSE],
      [Class |-> Class_K, disable |-> FALSE],
      [Class |-> Class_K, disable |-> TRUE] }

\* `node.Class() not in node_class` is false: node_class is one str of the
\* rule's list, so `in` is the substring test of str
ClassMatches(nodeClass, node_class) == Contains(node_class, nodeClass)

\* the two inner loops reach the append for the rule: some class of the rule
\* and some node of the scene pass both `continue` tests
RuleCaptures(rule, nodes) ==
    \E c \in 1..Len(rule.value) : \E n \in 1..Len(nodes) :
        /\ ClassMatches(nodes[n].Class, rule.value[c])
        /\ ~nodes[n].disable

\* `lg_name not in captured_groups`
InList(x, list) == \E k \in 1..Len(list) : list[k] = x

\* the outer loop from rule i on, captured being the list so far
RECURSIVE CaptureFrom(_, _, _, _)
CaptureFrom(rules, nodes, i, captured) ==
    IF i > Len(rules) THEN captured
    ELSE CaptureFrom(rules, nodes, i + 1,
            IF RuleCaptures(rules[i], nodes) /\ ~InList(rules[i].name, captured)
            THEN Append(captured, rules[i].name)
            ELSE captured)

\* _get_limit_groups(limit_groups) in a scene with the given nodes
GetLimitGroupsResult(rules, nodes) == CaptureFrom(rules, nodes, 1, <<>>)

InitLimit ==
    /\ limit_groups \in {<<>>} \cup SeqsUpTo(LimitGroupRules, MaxRules)
    /\ all_nodes \in {<<>>} \cup SeqsUpTo(SceneNodes, MaxNodes)
    /\ captured_groups = <<>>
    /\ data = FreshData
    /\ pc = "get_limit_groups"
    /\ exc = ""
    /\ ExpectedIdle
    /\ PayloadIdle
    /\ ProcessIdle

GetLimitGroups ==
    /\ pc = "get_limit_groups"
    /\ captured_groups' = GetLimitGroupsResult(limit_groups, all_nodes)
    /\ pc' = "returned"
    /\ UNCHANGED <<data, exc, limit_groups, all_nodes>>
    /\ UNCHANGED <<expected_vars, payload_inputs, payload_vars,
                   process_vars>>

NextLimit == GetLimitGroups

SpecLimit == InitLimit /\ [][NextLimit]_vars

\* ------------------------------------------------------------------------
\* Claims about _get_limit_groups (checked under SpecLimit)
\* ------------------------------------------------------------------------

\* some node that is not disabled has a class equal to a class of the rule
C6_RuleApplies(rule) ==
    \E c \in 1..Len(rule.value) : \E n \in 1..Len(all_nodes) :
        /\ all_nodes[n].Class = rule.value[c]
        /\ ~all_nodes[n].disable

\* the position of the first rule with the label
C6_FirstRule(label) ==
    CHOOSE i \in 1..Len(limit_groups) :
        /\ limit_groups[i].name = label
        /\ \A j \in 1..(i - 1) : limit_groups[j].name # label

\* C6: the returned list has no repeated label, is in first-seen rule order,
\* and holds a label if and only if some node that is not disabled has a
\* class equal to one of the classes listed in a rule with that label.
C6_AsStated ==
    pc = "returned" =>
        /\ \A i, j \in 1..Len(captured_groups) :
              captured_groups[i] = captured_groups[j] => i = j
        /\ \A label \in {"gpu", "lic"} :
              InList(label, captured_groups)
                <=> \E k \in 1..Len(limit_groups) :
                        /\ limit_groups[k].name = label
                        /\ C6_RuleApplies(limit_groups[k])
        /\ \A i, j \in 1..Len(captured_groups) :
              i < j => C6_FirstRule(captured_groups[i])
                        < C6_FirstRule(captured_groups[j])


\* ------------------------------------------------------------------------
\* Python dict: a sequence of <<key, value>> in insertion order, keys unique
\* ------------------------------------------------------------------------

\* `key in d`
DictHas(d, key) == \E k \in 1..Len(d) : d[k][1] = key

\* d[key]
DictGet(d, key) == d[CHOOSE k \in 1..Len(d) : d[k][1] = key][2]

\* d[key] = value: an existing key keeps its place
DictSet(d, key, value) ==
    IF DictHas(d, key)
    THEN [k \in 1..Len(d) |-> IF d[k][1] = key THEN <<key, value>> ELSE d[k]]
    ELSE Append(d, <<key, value>>)

\* d.update(e)
RECURSIVE DictUpdateFrom(_, _, _)
DictUpdateFrom(d, e, i) ==
    IF i > Len(e) THEN d
    ELSE DictUpdateFrom(DictSet(d, e[i][1], e[i][2]), e, i + 1)

DictUpdate(d, e) == DictUpdateFrom(d, e, 1)

\* ------------------------------------------------------------------------
\* payload_submit
\* ------------------------------------------------------------------------

\* the keys payload_submit always forwards
NukeEnvKeys ==
    << "NUKE_PATH", "FOUNDRY_LICENSE", "PHAROS_LOCATION", "PHAROS_NUKELIB",
       "CCCID", "NUKE_FONT_PATH", "OCIO", "PROJECT_LUT", "SHOT_LUT" >>

\* ChunkSize of a baking job
BakingChunkSize == 99999999

\* keys: the fixed list, followed by env_allowed_keys when it is not empty
ForwardedKeys(allowed) == NukeEnvKeys \o allowed

\* {key: os.environ[key] for key in keys if key in os.environ}
RECURSIVE EnvOfKeysFrom(_, _, _, _)
EnvOfKeysFrom(keys, environ, i, acc) ==
    IF i > Len(keys) THEN acc
    ELSE EnvOfKeysFrom(keys, environ, i + 1,
            IF DictHas(environ, keys[i])
            THEN DictSet(acc, keys[i], DictGet(environ, keys[i]))
            ELSE acc)

NukeSpecificEnv(allowed, environ) ==
    EnvOfKeysFrom(ForwardedKeys(allowed), environ, 1, <<>>)

\* mutant of JobEnvironment: the instance env is laid over the others
JobEnvironment_InstanceLast(inst, render, nuke) ==
    DictUpdate(DictUpdate(nuke, render), inst)

\* environment = get_instance_job_envs(instance), then the two update calls
JobEnvironment(inst, render, nuke) ==
    DictUpdate(DictUpdate(inst, render), nuke)

\* the inner loop over the rules for one (key, value) of environment.items():
\* every pass assigns value.replace(...) of the value the item had when the
\* loop began
RECURSIVE ReplacedFrom(_, _, _, _)
ReplacedFrom(value, rules, i, cur) ==
    IF i > Len(rules) THEN cur
    ELSE ReplacedFrom(value, rules, i + 1,
                      Replace(value, rules[i].name, rules[i].value))

\* environment after the search-and-replace block
SearchReplaced(env, rules) ==
    IF rules = <<>> THEN env
    ELSE [k \in 1..Len(env) |->
            <<env[k][1], ReplacedFrom(env[k][2], rules, 1, env[k][2])>>]

\* the exception os.makedirs(render_dir) raises, "" for none
MakedirsRaises(state) ==
    CASE state = "absent" -> ""
      [] state = "exists" -> "FileExistsError"
      [] state = "denied" -> "PermissionError"

\* `except OSError: pass` catches err: every OSError subclass
CaughtByExceptOSError(err) == err \in {"FileExistsError", "PermissionError"}

\* the payload as built before the environment is added
BuiltPayload(path, chunk, response, baking) ==
    LET base == [ BatchName |-> Basename(current_file),
                  Name |-> Basename(path),
                  JobType |-> "",
                  ChunkSize |-> chunk,
                  JobDependency0 |-> "",
                  Environment |-> <<>> ]
        baked == IF baking
                 THEN [base EXCEPT !.JobType = "Normal",
                                   !.ChunkSize = BakingChunkSize]
                 ELSE base
    IN IF response._id # ""
       THEN [baked EXCEPT !.BatchName = response.Batch,
                          !.JobDependency0 = response._id]
       ELSE baked

\* what get_instance_job_envs(instance) may return
InstanceJobEnvs ==
    { <<>>,
      << <<"OCIO", <<"a">> >> >>,
      << <<"AYON_BUNDLE", <<"a", "b">> >>, <<"OCIO", <<"a", "b">> >>,
         <<"STUDIO", <<"a">> >> >> }

\* what get_ayon_render_job_envs() may return
RenderJobEnvs ==
    { <<>>,
      << <<"AYON_BUNDLE", <<"c">> >>, <<"AYON_RENDER_JOB", <<"a">> >> >> }

\* os.environ
OsEnvirons ==
    { <<>>,
      << <<"OCIO", <<"c">> >>, <<"HOME", <<"a", "b">> >> >>,
      << <<"STUDIO", <<"c">> >>, <<"NUKE_PATH", <<"a", "b">> >>,
         <<"OCIO", <<"a">> >> >> }

\* the setting env_allowed_keys
AllowedKeyLists == { <<>>, <<"STUDIO">>, <<"STUDIO", "OCIO">> }

\* a rule of the setting env_search_replace_values
ReplaceRules == [name : { <<"a">>, <<"b">> }, value : { <<"b">>, <<"x">> }]

InitPayload ==
    /\ data = FreshData
    /\ pc = "payload_submit"
    /\ exc = ""
    /\ ExpectedIdle
    /\ LimitIdle
    /\ ProcessIdle
    /\ current_file = <<"/", "w", "/", "s", "c">>
    /\ render_path = Join(Str_d, <<"p", ".", "p">>)
    /\ response_data \in {NoResponse, [_id |-> "abc123", Batch |-> <<"b", "1">>]}
    /\ baking_submission \in BOOLEAN
    /\ in_tests \in BOOLEAN
    /\ render_dir_state \in {"absent", "exists", "denied"}
    /\ makedirs_error = ""
    /\ env_allowed_keys \in AllowedKeyLists
    /\ env_search_replace_values
          \in {<<>>} \cup SeqsUpTo(ReplaceRules, MaxReplaceRules)
    /\ os_environ \in OsEnvirons
    /\ instance_job_envs \in InstanceJobEnvs
    /\ render_job_envs \in RenderJobEnvs
    /\ environment = <<>>
    /\ payload = NoPayload
    /\ submissions = <<>>

\* lines 208-221: in the test runs the batch name gets a time stamp from
\* datetime, a name the module never binds
PayloadBegin ==
    /\ pc = "payload_submit"
    /\ IF in_tests
       THEN pc' = "raised" /\ exc' = "NameError"
       ELSE pc' = "makedirs" /\ exc' = exc
    /\ UNCHANGED <<data, expected_vars, limit_vars, payload_inputs,
                   payload_vars, process_vars>>

\* lines 223-227: os.makedirs(render_dir) under `except OSError: pass`
MakeRenderDir ==
    /\ pc = "makedirs"
    /\ LET err == MakedirsRaises(render_dir_state)
       IN /\ makedirs_error' = err
          /\ render_dir_state' =
                IF err = "" THEN "exists" ELSE render_dir_state
          /\ IF err = "" \/ CaughtByExceptOSError(err)
             THEN pc' = "build_payload" /\ exc' = exc
             ELSE pc' = "raised" /\ exc' = err
    /\ UNCHANGED <<data, expected_vars, limit_vars, payload_inputs,
                   environment, payload, submissions, process_vars>>

\* lines 229-310: the payload dict
BuildPayload ==
    /\ pc = "build_payload"
    /\ payload' = BuiltPayload(render_path, data.chunk, response_data,
                               baking_submission)
    /\ pc' = "collect_env"
    /\ UNCHANGED <<data, exc, expected_vars, limit_vars, payload_inputs,
                   render_dir_state, makedirs_error, environment,
                   submissions, process_vars>>

\* lines 312-336: the job environment
CollectEnvironment ==
    /\ pc = "collect_env"
    /\ environment' =
          JobEnvironment(instance_job_envs, render_job_envs,
                         NukeSpecificEnv(env_allowed_keys, os_environ))
    /\ pc' = "search_replace"
    /\ UNCHANGED <<data, exc, expected_vars, limit_vars, payload_inputs,
                   render_dir_state, makedirs_error, payload, submissions,
                   process_vars>>

\* lines 338-344: search and replace in the values
SearchReplace ==
    /\ pc = "search_replace"
    /\ environment' = SearchReplaced(environment, env_search_replace_values)
    /\ pc' = "fill_env"
    /\ UNCHANGED <<data, exc, expected_vars, limit_vars, payload_inputs,
                   render_dir_state, makedirs_error, payload, submissions,
                   process_vars>>

\* lines 346-353: EnvironmentKeyValue<index> = "<key>=<value>"
FillEnvironment ==
    /\ pc = "fill_env"
    /\ payload' = [payload EXCEPT !.Environment = environment]
    /\ pc' = "log_payload"
    /\ UNCHANGED <<data, exc, expected_vars, limit_vars, payload_inputs,
                   render_dir_state, makedirs_error, environment,
                   submissions, process_vars>>

\* lines 355-359: json.dumps(payload, ...) evaluates json, a name the module
\* never binds: NameError.  Lines 361-442 (the call of _expected_files, the
\* submissions) are never reached.
LogPayload ==
    /\ pc = "log_payload"
    /\ pc' = "raised"
    /\ exc' = "NameError"
    /\ UNCHANGED <<data, expected_vars, limit_vars, payload_inputs,
                   payload_vars, process_vars>>

NextPayload ==
    \/ PayloadBegin
    \/ MakeRenderDir
    \/ BuildPayload
    \/ CollectEnvironment
    \/ SearchReplace
    \/ FillEnvironment
    \/ LogPayload

SpecPayload == InitPayload /\ [][NextPayload]_vars


\* ------------------------------------------------------------------------
\* Claims about payload_submit (checked under SpecPayload)
\* ------------------------------------------------------------------------

\* every key that occurs anywhere
C4_Keys ==
    {instance_job_envs[k][1] : k \in 1..Len(instance_job_envs)}
    \cup {render_job_envs[k][1] : k \in 1..Len(render_job_envs)}
    \cup {os_environ[k][1] : k \in 1..Len(os_environ)}

\* the key is on the fixed list or on the configured list
C4_AllowListed(key) ==
    \/ \E k \in 1..Len(NukeEnvKeys) : NukeEnvKeys[k] = key
    \/ \E k \in 1..Len(env_allowed_keys) : env_allowed_keys[k] = key

\* the key is sent, by the overlay of the claim
C4_Sent(key) ==
    \/ DictHas(instance_job_envs, key)
    \/ DictHas(render_job_envs, key)
    \/ (C4_AllowListed(key) /\ DictHas(os_environ, key))

\* the value of the key, by the overlay of the claim: the latest source wins
C4_Value(key) ==
    IF C4_AllowListed(key) /\ DictHas(os_environ, key)
    THEN DictGet(os_environ, key)
    ELSE IF DictHas(render_job_envs, key) THEN DictGet(render_job_envs, key)
    ELSE DictGet(instance_job_envs, key)

\* env is the overlay: the keys of the claim, each once, each with its value
C4_IsOverlay(env) ==
    /\ \A i, j \in 1..Len(env) : env[i][1] = env[j][1] => i = j
    /\ \A k \in 1..Len(env) : C4_Sent(env[k][1])
    /\ \A key \in C4_Keys :
          C4_Sent(key) => /\ DictHas(env, key)
                          /\ DictGet(env, key) = C4_Value(key)

RECURSIVE C5_AllRules(_, _, _)
C5_AllRules(value, rules, i) ==
    IF i > Len(rules) THEN value
    ELSE C5_AllRules(Replace(value, rules[i].name, rules[i].value), rules,
                     i + 1)

\* C5: with one or more search-and-replace rules configured, the value
\* submitted for every key is the overlaid value with every configured rule
\* applied to it, and the substitution leaves the set of keys unchanged.
C5_AsStated ==
    (pc \in {"fill_env", "log_payload"} /\ env_search_replace_values # <<>>)
        => /\ \A key \in C4_Keys : DictHas(environment, key) <=> C4_Sent(key)
           /\ \A k \in 1..Len(environment) :
                 environment[k][2] =
                    C5_AllRules(C4_Value(environment[k][1]),
                                env_search_replace_values, 1)

\* the creation of the render directory has been tried
C9_Tried == pc \notin {"payload_submit", "makedirs"} /\ ~in_tests

\* C9 as stated: a failure of the render-directory creation is suppressed
\* only when the directory already exists; any other OS-level failure
\* propagates to the caller.
C9_AsStated ==
    (C9_Tried /\ makedirs_error \notin {"", "FileExistsError"})
        => (pc = "raised" /\ exc = makedirs_error)


\* ------------------------------------------------------------------------
\* process
\* ------------------------------------------------------------------------

\* instance.data["deadline"]["url"]: None, the empty str, or a URL
DeadlineUrls == {"None", "", "http://deadline"}

\* the k-th baking script of an instance
BakingScript(k) ==
    [ bakeRenderPath |-> Join(Str_d, <<"b">> \o Digits(k)),
      bakeScriptPath |-> Join(Str_d, <<"s">> \o Digits(k)),
      bakeWriteNodeName |-> <<"w">> \o Digits(k) ]

\* instance.data["bakingNukeScripts"] with n scripts
BakingScripts(n) == [k \in 1..n |-> BakingScript(k)]

ProductTypes == {"render", "prerender", "image"}

\* mutant of UrlAsserted: the assertion is compiled away (python -O)
UrlAsserted_Off(url) == TRUE

\* `assert deadline_url` passes: the value is neither None nor empty
UrlAsserted(url) == url \notin {"None", ""}

\* "{}/api/jobs".format(deadline_url), as the pair of its two parts
JobsUrl(url) == <<url, "/api/jobs">>

InitProcess ==
    /\ \E farm \in BOOLEAN, url \in DeadlineUrls, rt \in RenderTargets,
          n \in 0..MaxBaking, pt \in ProductTypes :
          data = [FreshData EXCEPT !.farm = farm, !.url = url,
                                   !.render_target = rt,
                                   !.bakingNukeScripts = BakingScripts(n),
                                   !.productType = pt, !.family = pt,
                                   !.families = <<pt>>]
    /\ pc = "process"
    /\ exc = ""
    /\ ExpectedIdle
    /\ LimitIdle
    /\ PayloadIdle
    /\ deadline_url = <<>>
    /\ data_before = data

\* lines 48-54: an instance that is not for the farm is skipped
ProcessBegin ==
    /\ pc = "process"
    /\ pc' = IF data.farm THEN "check_url" ELSE "returned"
    /\ UNCHANGED <<data, exc, expected_vars, limit_vars, payload_inputs,
                   payload_vars, process_vars>>

\* lines 56-57: the Deadline URL is asserted
CheckUrl ==
    /\ pc = "check_url"
    /\ IF UrlAsserted(data.url)
       THEN pc' = "prelude" /\ exc' = exc
       ELSE pc' = "raised" /\ exc' = "AssertionError"
    /\ UNCHANGED <<data, expected_vars, limit_vars, payload_inputs,
                   payload_vars, process_vars>>

\* lines 59-64: self.deadline_url, self._comment and self._ver are set; the
\* default of context.data.get("deadlineUser", getpass.getuser()) is evaluated
\* before the call, and getpass is a name the module never binds: NameError.
\* Lines 65-137 (the submissions, the redefinition of the families) are never
\* reached.
Prelude ==
    /\ pc = "prelude"
    /\ deadline_url' = JobsUrl(data.url)
    /\ pc' = "raised"
    /\ exc' = "NameError"
    /\ UNCHANGED <<data, expected_vars, limit_vars, payload_inputs,
                   payload_vars, data_before>>

NextProcess ==
    \/ ProcessBegin
    \/ CheckUrl
    \/ Prelude

SpecProcess == InitProcess /\ [][NextProcess]_vars

\* ------------------------------------------------------------------------
\* Claims about process (checked under SpecProcess)
\* ------------------------------------------------------------------------

\* process has ended, by a return or by an exception
ProcessEnded == pc \in {"returned", "raised"}

\* the instance is for the farm and its Deadline URL is set
FarmInstance == data_before.farm /\ data_before.url \notin {"None", ""}

\* the submissions C1 expects of the instance, in order
C1_Expected ==
    (IF data_before.render_target # "frames_farm"
     THEN <<[kind |-> "main", script |-> 0]>> ELSE <<>>)
    \o [k \in 1..Len(data_before.bakingNukeScripts) |->
            [kind |-> "baking", script |-> k]]

\* C1: for every farm instance with N >= 0 baking scripts, process issues the
\* main render job first (once, unless render_target is frames_farm), then
\* one submission per baking script in list order, none repeated; afterwards
\* bakingSubmissionJobs is the list of the N identifiers the baking
\* submissions returned, in order.
C1_AsStated ==
    (ProcessEnded /\ FarmInstance)
        => /\ Len(submissions) = Len(C1_Expected)
           /\ \A k \in 1..Len(submissions) :
                 /\ submissions[k].kind = C1_Expected[k].kind
                 /\ submissions[k].script = C1_Expected[k].script
           /\ Len(data.bakingSubmissionJobs)
                 = Len(data_before.bakingNukeScripts)
           /\ \A k \in 1..Len(data.bakingSubmissionJobs) :
                 \E j \in 1..Len(submissions) :
                     /\ submissions[j].kind = "baking"
                     /\ submissions[j].script = k
                     /\ submissions[j]._id = data.bakingSubmissionJobs[k]

\* C2: the job of every baking script is submitted with a payload that, after
\* a main job whose response carries an identifier, has JobDependency0 equal
\* to the main job's identifier and BatchName equal to the main response's
\* batch; with no prior response (frames_farm) it has no JobDependency0 and
\* its BatchName is the base name of the current workfile.
C2_AsStated ==
    (ProcessEnded /\ FarmInstance)
        => \A k \in 1..Len(data_before.bakingNukeScripts) :
              \E j \in 1..Len(submissions) :
                  /\ submissions[j].kind = "baking"
                  /\ submissions[j].script = k
                  /\ IF data_before.render_target # "frames_farm"
                     THEN /\ submissions[1].kind = "main"
                          /\ submissions[j].payload.JobDependency0
                                = submissions[1]._id
                          /\ submissions[j].payload.BatchName
                                = submissions[1].Batch
                     ELSE /\ submissions[j].payload.JobDependency0 = ""
                          /\ submissions[j].payload.BatchName
                                = Basename(current_file)

\* the keys of instance.data that a submission writes
C8_Untouched ==
    /\ data.deadlineSubmissionJob = data_before.deadlineSubmissionJob
    /\ data.outputDir = data_before.outputDir
    /\ data.publishJobState = data_before.publishJobState
    /\ data.bakingSubmissionJobs = data_before.bakingSubmissionJobs
    /\ data.expectedFiles = data_before.expectedFiles
    /\ data.families = data_before.families
    /\ data.family = data_before.family
    /\ data.productType = data_before.productType

\* C8: process on a farm instance whose Deadline URL is missing or empty
\* fails with an assertion error, before any job is submitted, before
\* self.deadline_url is set and before any key of instance.data is changed.
C8_AssertsUrl ==
    (data_before.farm /\ data_before.url \in {"None", ""})
        => /\ pc \in {"process", "check_url", "raised"}
           /\ pc = "raised" => exc = "AssertionError"
           /\ submissions = <<>>
           /\ deadline_url = <<>>
           /\ C8_Untouched

\* C8 witness: process has failed on a farm instance with an empty URL
C8_Witness ==
    /\ data_before.farm
    /\ data_before.url = ""
    /\ pc = "raised"
    /\ exc = "AssertionError"

\* C10: after process on a farm instance, an instance whose productType was
\* "render" has family and productType "write" and "render2d" at the front
\* of its families; one whose productType was "prerender" has family and
\* productType "write" and "prerender" at the front of its families.
C10_AsStated ==
    (ProcessEnded /\ FarmInstance)
        => /\ data_before.productType = "render"
                => /\ data.family = "write"
                   /\ data.productType = "write"
                   /\ data.families = <<"render2d">> \o data_before.families
           /\ data_before.productType = "prerender"
                => /\ data.family = "write"
                   /\ data.productType = "write"
                   /\ data.families = <<"prerender">> \o data_before.families

\* the expected paths of the instance's own output, each once: what one call
\* of _expected_files on instance.data["path"] with the instance's handle
\* frames leaves in an empty expectedFiles
C12_OwnOutput ==
    ExpectedFilesResult(data_before, data_before.path,
                        data_before.frameStartHandle,
                        data_before.frameEndHandle).expectedFiles

\* C12: after process on a farm instance that starts with no expectedFiles,
\* has a render_target other than frames_farm and has N >= 0 baking scripts,
\* instance.data["expectedFiles"] contains each expected path of the
\* instance's own output exactly once; its length does not grow with N.
C12_AsStated ==
    (/\ ProcessEnded /\ FarmInstance
     /\ data_before.expectedFiles = <<>>
     /\ data_before.render_target # "frames_farm")
        => /\ data.expectedFiles = C12_OwnOutput
           /\ Len(data.expectedFiles) = Len(C12_OwnOutput)

====
